---- MODULE Spec2Model ----
(***************************************************************************)
(* Model of android_scraper.py and android_scraper_2018.py: the PdfOutput  *)
(* assembler (heading stack, lazily created bookmarks, unique file names,  *)
(* clean-up) and the recursive site traversal that drives it.              *)
(*                                                                         *)
(* Strings are sequences of one-character strings, so that the string      *)
(* functions of the source (find, replace, endswith, str, slicing) are     *)
(* computed character by character.                                        *)
(***************************************************************************)
EXTENDS Integers, Sequences, FiniteSets, TLC

(* ------------------------------ bounds --------------------------------- *)

\* Largest number of navigation items (groups, links, nav headings) of a site.
MaxNodes == 3

\* Largest number of pages of one rendered PDF file.
MaxPdfPages == 2

\* Largest number of PdfOutput calls in the free-call specification SpecApi.
MaxCalls == 5

\* Largest length of a page title handed to title_to_bookmark_title in the
\* specification of the text functions SpecText.
MaxTitleLen == 4

\* Largest number of parts a URL handed to remove_wayback_header is made of
\* in SpecText.
MaxUrlParts == 3

(* ------------------------------ strings -------------------------------- *)

\* '.pdf', the extension add_page tests for and passes to
\* make_unique_filename_ext.
PdfExt == <<".", "p", "d", "f">>

\* The characters url_to_filename replaces by '_'.
UnsafeChars == {"\"", "!", "/", ".", " ", "?", "=", ":", "'"}

\* str.endswith
endswith(s, suffix) ==
    /\ Len(s) >= Len(suffix)
    /\ SubSeq(s, Len(s) - Len(suffix) + 1, Len(s)) = suffix

\* str.startswith
startswith(s, prefix) ==
    /\ Len(s) >= Len(prefix)
    /\ SubSeq(s, 1, Len(prefix)) = prefix

\* str.find: the 0-based index of the first occurrence of sub in s, or -1.
find(s, sub) ==
    LET hits == {i \in 0..(Len(s) - Len(sub)) :
                    SubSeq(s, i + 1, i + Len(sub)) = sub}
    IN  IF hits = {} THEN -1
        ELSE CHOOSE i \in hits : \A j \in hits : i <= j

\* s[start:] as Python computes it: a negative start counts from the end.
slice_from(s, start) ==
    LET b == IF start < 0 THEN start + Len(s) ELSE start
    IN  IF b <= 0 THEN s ELSE SubSeq(s, b + 1, Len(s))

\* The decimal digits, indexed by value + 1.
Digits == <<"0", "1", "2", "3", "4", "5", "6", "7", "8", "9">>

\* str(n) for a natural number n.
RECURSIVE str(_)
str(n) ==
    IF n < 10 THEN <<Digits[n + 1]>>
    ELSE str(n \div 10) \o <<Digits[(n % 10) + 1]>>

\* url_to_filename: drop everything up to and including the first '//'
\* (url.find('//') + 2 is 1 when there is no '//'), then replace every
\* unsafe character by '_'.
RECURSIVE replace_unsafe(_)
replace_unsafe(name) ==
    IF name = <<>> THEN <<>>
    ELSE <<IF Head(name) \in UnsafeChars THEN "_" ELSE Head(name)>>
            \o replace_unsafe(Tail(name))

url_to_filename(url) ==
    replace_unsafe(slice_from(url, find(url, <<"/", "/">>) + 2))

\* s[:stop] as Python computes it: a negative stop counts from the end.
slice_to(s, stop) ==
    LET e == IF stop < 0 THEN stop + Len(s) ELSE stop
    IN  IF e <= 0 THEN <<>>
        ELSE IF e >= Len(s) THEN s
        ELSE SubSeq(s, 1, e)

\* str.strip for the blank character.
RECURSIVE lstrip(_)
lstrip(s) ==
    IF s # <<>> /\ Head(s) = " " THEN lstrip(Tail(s)) ELSE s

RECURSIVE rstrip(_)
rstrip(s) ==
    IF s # <<>> /\ s[Len(s)] = " " THEN rstrip(SubSeq(s, 1, Len(s) - 1)) ELSE s

strip(s) == rstrip(lstrip(s))

\* title_to_bookmark_title: 'not vertical_bar' is true only for 0, so a
\* title without '|' (find returns -1) is cut at -2.
title_to_bookmark_title(title) ==
    LET vertical_bar == find(title, <<"|">>)
    IN  IF vertical_bar = 0 THEN title
        ELSE strip(slice_to(title, vertical_bar - 1))

\* 'web.archive.org', as remove_wayback_header looks for it.
WaybackHost ==
    <<"w", "e", "b", ".", "a", "r", "c", "h", "i", "v", "e", ".", "o", "r", "g">>

\* remove_wayback_header (2018): 'not url.find(...)' is true only when the
\* host is found at index 0; otherwise 'if_' is put in at url.find('/http'),
\* which is -1 when there is no '/http'.
remove_wayback_header(url) ==
    IF find(url, WaybackHost) = 0 THEN url
    ELSE LET spot == find(url, <<"/", "h", "t", "t", "p">>)
         IN  slice_to(url, spot) \o <<"i", "f", "_">> \o slice_from(url, spot)

(* ------------------------------- inputs -------------------------------- *)

\* 'http', the prefix url_to_absolute tests for.
Http == <<"h", "t", "t", "p">>

\* The site URL given on the command line: http://a/
SiteUrl == Http \o <<":", "/", "/", "a", "/">>

\* http://a.   (same file name as the site URL: a_)
UrlDot == Http \o <<":", "/", "/", "a", ".">>

\* http://a_2  (its file name ends in the first generated suffix)
UrlTwo == Http \o <<":", "/", "/", "a", "_", "2">>

\* http://a.pdf  (already a PDF: add_page skips it)
UrlPdf == Http \o <<":", "/", "/", "a", ".", "p", "d", "f">>

\* The link targets a navigation item can have.
LeafUrls == {UrlDot, UrlTwo, UrlPdf}

\* url_to_absolute: an href that starts with 'http' is returned as it is
\* (2017); urljoin returns an absolute href as it is (2018).  A relative
\* href is appended to the site URL (2017).
url_to_absolute(site_url, page_url) ==
    IF startswith(page_url, Http) THEN page_url ELSE site_url \o page_url

(* -------------------------- navigation trees --------------------------- *)

\* The two revisions of the program.
Revisions == {"2017", "2018"}

\* A navigation item: a link ("leaf"), an item with sub-items ("group": an
\* upper tab with lower tabs, a tab with a side menu, an expandable side
\* menu item) or a 'devsite-nav-heading' side menu item ("heading").
LeafNode(url) == [kind |-> "leaf", href |-> url, kids |-> <<>>]
GroupNode(kids) == [kind |-> "group", href |-> <<>>, kids |-> kids]
HeadingNode == [kind |-> "heading", href |-> <<>>, kids |-> <<>>]
NoNode == [kind |-> "none", href |-> <<>>, kids |-> <<>>]

\* The number of tab levels above the side menu: upper and lower tabs in
\* 2017 (scrape_upper_tab, scrape_lower_tab), upper tabs in 2018.
TabLevels(r) == IF r = "2017" THEN 2 ELSE 1

\* 'devsite-nav-heading' items are side menu items of the 2017 layout.
ChildlessNodes(r, lvl) ==
    {LeafNode(u) : u \in LeafUrls}
        \cup (IF r = "2017" /\ lvl > TabLevels(r) THEN {HeadingNode} ELSE {})

\* The forests (item lists) of exactly n items whose roots are at level lvl.
RECURSIVE ForestsOfSize(_, _, _)
ForestsOfSize(r, lvl, n) ==
    IF n = 0 THEN {<<>>}
    ELSE UNION {
            LET firsts ==
                    (IF k = 1 THEN ChildlessNodes(r, lvl) ELSE {})
                        \cup {GroupNode(f) : f \in ForestsOfSize(r, lvl + 1, k - 1)}
            IN  {<<t>> \o rest : t \in firsts,
                                  rest \in ForestsOfSize(r, lvl, n - k)}
            : k \in 1..n}

\* The upper-tab lists of the sites of at most MaxNodes items.
Sites(r) == UNION {ForestsOfSize(r, 1, n) : n \in 0..MaxNodes}

\* The text of the item at a place in the navigation: "1", "1.2", ...
RECURSIVE nav_text(_)
nav_text(path) ==
    IF Len(path) = 1 THEN str(path[1])
    ELSE nav_text(SubSeq(path, 1, Len(path) - 1)) \o <<".">> \o str(path[Len(path)])

\* The <title> of the page of the item at a place: "1.2 | S".
page_title(path) == nav_text(path) \o <<" ", "|", " ", "S">>

\* The <title> of the site's main page, with the blanks strip() removes.
SiteTitle == <<" ", "S", " ">>

(* ------------------------------- state --------------------------------- *)

VARIABLES
    rev,                \* which revision of the program runs
    debug,              \* --debug (2017) / --no-exec (2018)
    site,               \* the upper-tab list of the site (its navigation tree)
    run,                \* 1: the first run of the program, 2: a re-run
    recover,            \* the command line of this run asks for recovery
    status,             \* where main() is, or how the process ended
    todo,               \* the calls the traversal has still to make, in order
    pages,              \* writer: the pages appended so far
    bookmarks,          \* writer: the outline entries added so far
    bookmark_stack,     \* PdfOutput.bookmark_stack
    files_to_clean_up,  \* PdfOutput.files_to_clean_up
    disk,               \* the PDF files in the working directory
    renders,            \* calls of the renderer (google-chrome) in this run
    sleeps,             \* calls of time.sleep in this run
    output,             \* what this run wrote to the output file
    first,              \* what the first run wrote to the output file
    allocated,          \* history: the file name returned for each URL, in order
    nextHid,            \* history: the identity of the next Bookmark object
    covered,            \* history: the headings that were on the stack at an append
    undeletable,        \* the files os.remove failed on
    calls,              \* number of calls made in the free-call specification
    history,            \* history: the calls made in the free-call specification
    fn,                 \* the text function that was called, "none" before
    arg,                \* the string it was called with
    ret                 \* the string it returned

vars == <<rev, debug, site, run, recover, status, todo, pages, bookmarks,
          bookmark_stack, files_to_clean_up, disk, renders, sleeps, output,
          first, allocated, nextHid, covered, undeletable, calls, history,
          fn, arg, ret>>

\* No output file written.
NoOutput == [written |-> FALSE, pages |-> <<>>, bookmarks |-> <<>>]

\* None, as the value of Bookmark.pdf_ref and of a bookmark's parent.
None == 0

(* ----------------------------- PdfOutput -------------------------------- *)

\* PdfOutput.Bookmark.__init__; hid is the identity of the object.
Bookmark(title, indent, hid) ==
    [title |-> title, pdf_ref |-> None, indent |-> indent, hid |-> hid]

\* is_pending that forgets the reference already set.
is_pending_always(bookmark) == TRUE

\* Bookmark.is_pending
is_pending(bookmark) == bookmark.pdf_ref = None

\* writer.addBookmark: the outline with the new entry; the reference it
\* returns is the entry's index.  owner is the Bookmark object the entry was
\* made for (None for the entry of a page).
addBookmark(bms, title, page_num, parent, italic, owner) ==
    Append(bms, [title |-> title, page |-> page_num, parent |-> parent,
                 italic |-> italic, owner |-> owner])

\* The loop of create_pending_bookmarks as in 2017, where every entry
\* becomes the parent of the next, run on the 2018 stack.
RECURSIVE pending_loop_chained(_, _, _, _, _)
pending_loop_chained(stack, bms, page_num, i, parent) ==
    IF i > Len(stack) THEN [stack |-> stack, bms |-> bms]
    ELSE LET bookmark == stack[i]
             made == bookmark.pdf_ref = 0
             bms2 == IF made
                     THEN Append(bms, [title |-> bookmark.title, page |-> page_num,
                                       parent |-> parent, italic |-> ~bookmark.indent,
                                       owner |-> bookmark.hid])
                     ELSE bms
             ref == IF made THEN Len(bms2) ELSE bookmark.pdf_ref
         IN  pending_loop_chained([stack EXCEPT ![i].pdf_ref = ref], bms2,
                                  page_num, i + 1, ref)

\* The loop of create_pending_bookmarks from stack index i on, with the
\* loop variable parent.
RECURSIVE pending_loop(_, _, _, _, _)
pending_loop(stack, bms, page_num, i, parent) ==
    IF i > Len(stack) THEN [stack |-> stack, bms |-> bms]
    ELSE LET bookmark == stack[i]
             made == is_pending(bookmark)
             bms2 == IF made
                     THEN addBookmark(bms, bookmark.title, page_num, parent,
                                      ~bookmark.indent, bookmark.hid)
                     ELSE bms
             ref == IF made THEN Len(bms2) ELSE bookmark.pdf_ref
             stack2 == [stack EXCEPT ![i].pdf_ref = ref]
         IN  pending_loop(stack2, bms2, page_num, i + 1,
                          IF rev = "2017" \/ bookmark.indent THEN ref ELSE parent)

\* create_pending_bookmarks: the stack and the outline after it.
create_pending_bookmarks(stack, bms, page_num) ==
    pending_loop(stack, bms, page_num, 1, None)

\* bookmark_page: the outline after it.
bookmark_page(stack, bms, title, page_num) ==
    LET parent == IF stack # <<>> THEN stack[Len(stack)].pdf_ref ELSE None
    IN  addBookmark(bms, title, page_num, parent, FALSE, None)

\* The while loop of make_unique_filename_ext with the extension left out
\* of its test.
RECURSIVE unique_loop_no_ext(_, _, _, _, _)
unique_loop_no_ext(files, file_name, ext, tentative_name, suffix) ==
    IF \E i \in 1..Len(files) : files[i] = tentative_name
    THEN unique_loop_no_ext(files, file_name, ext, file_name \o str(suffix), suffix + 1)
    ELSE tentative_name \o ext

\* The while loop of make_unique_filename_ext.
RECURSIVE unique_loop(_, _, _, _, _)
unique_loop(files, file_name, ext, tentative_name, suffix) ==
    IF \E i \in 1..Len(files) : files[i] = tentative_name \o ext
    THEN unique_loop(files, file_name, ext, file_name \o str(suffix), suffix + 1)
    ELSE tentative_name \o ext

\* make_unique_filename_ext
make_unique_filename_ext(files, file_name, ext) ==
    unique_loop(files, file_name, ext, file_name, 2)

\* The while loop of pop_heading with its test turned round: it removes
\* the entries that do indent.
RECURSIVE pop_loop_indented(_)
pop_loop_indented(stack) ==
    IF stack # <<>> /\ stack[Len(stack)].indent
    THEN pop_loop_indented(SubSeq(stack, 1, Len(stack) - 1))
    ELSE stack

\* The while loop of pop_heading without the test of indent: it empties the
\* stack.
RECURSIVE pop_loop_any(_)
pop_loop_any(stack) ==
    IF stack # <<>>
    THEN pop_loop_any(SubSeq(stack, 1, Len(stack) - 1))
    ELSE stack

\* The while loop of pop_heading (2018).
RECURSIVE pop_loop(_)
pop_loop(stack) ==
    IF stack # <<>> /\ ~stack[Len(stack)].indent
    THEN pop_loop(SubSeq(stack, 1, Len(stack) - 1))
    ELSE stack

\* pop_heading that clears the stack instead of removing its top entry.
popped_all(stack) == <<>>

\* pop_heading that removes the bottom entry instead of the top one.
popped_bottom(stack) == Tail(stack)

\* pop_heading: the stack after it (the stack is not empty).
popped(stack) ==
    LET rest == SubSeq(stack, 1, Len(stack) - 1)
    IN  IF rev = "2017" THEN rest ELSE pop_loop(rest)

\* The URL save_url_to_pdf hands to google-chrome.
rendered_url(url) ==
    IF rev = "2017" THEN url ELSE remove_wayback_header(url)

\* push_heading
push_heading(bookmark_title) ==
    /\ bookmark_stack' = Append(bookmark_stack, Bookmark(bookmark_title, TRUE, nextHid))
    /\ nextHid' = nextHid + 1

\* add_heading (2018)
add_heading(bookmark_title) ==
    /\ bookmark_stack' = Append(bookmark_stack, Bookmark(bookmark_title, FALSE, nextHid))
    /\ nextHid' = nextHid + 1

\* pop_heading
pop_heading ==
    /\ bookmark_stack # <<>>
    /\ bookmark_stack' = popped(bookmark_stack)

\* add_page that reads getNumPages after it has appended the pages.
append_and_bookmark_late(url, file_name, n, bookmark_title, bookmark) ==
    LET page_index == Len(pages) + n
        made == create_pending_bookmarks(bookmark_stack, bookmarks, page_index)
    IN  /\ pages' = pages \o [i \in 1..n |->
                        [url |-> url, shown |-> rendered_url(url), file |-> file_name]]
        /\ files_to_clean_up' = Append(files_to_clean_up, file_name)
        /\ bookmark_stack' = made.stack
        /\ bookmarks' = IF bookmark
                        THEN bookmark_page(made.stack, made.bms, bookmark_title, page_index)
                        ELSE made.bms
        /\ covered' = covered \cup {bookmark_stack[i].hid : i \in 1..Len(bookmark_stack)}

\* What a successful add_page of a PDF of n pages does after the render:
\* getNumPages, append_pdf_to_output, create_pending_bookmarks, bookmark_page.
append_and_bookmark(url, file_name, n, bookmark_title, bookmark) ==
    LET page_index == Len(pages)
        made == create_pending_bookmarks(bookmark_stack, bookmarks, page_index)
    IN  /\ pages' = pages \o [i \in 1..n |->
                        [url |-> url, shown |-> rendered_url(url), file |-> file_name]]
        /\ files_to_clean_up' = Append(files_to_clean_up, file_name)
        /\ bookmark_stack' = made.stack
        /\ bookmarks' = IF bookmark
                        THEN bookmark_page(made.stack, made.bms, bookmark_title, page_index)
                        ELSE made.bms
        /\ covered' = covered \cup {bookmark_stack[i].hid : i \in 1..Len(bookmark_stack)}

\* add_page after its '.pdf' test: sleep, make the file name, and unless
\* debug / no_exec is set render and append.  The renderer either fails
\* (subprocess.run(check=True) raises CalledProcessError, which nothing
\* catches) or writes a PDF of 1 to MaxPdfPages pages.
save_page(url, bookmark_title, bookmark) ==
    LET file_name == make_unique_filename_ext(files_to_clean_up,
                                              url_to_filename(url), PdfExt)
    IN  /\ sleeps' = sleeps + 1
        /\ allocated' = Append(allocated, [url |-> url, file |-> file_name])
        /\ IF debug
           THEN UNCHANGED <<pages, bookmarks, bookmark_stack, files_to_clean_up,
                            disk, renders, covered, status>>
           ELSE /\ renders' = renders + 1
                /\ \/ /\ status' = "render_error"
                      /\ UNCHANGED <<pages, bookmarks, bookmark_stack,
                                     files_to_clean_up, disk, covered>>
                   \/ /\ \E n \in 1..MaxPdfPages :
                            append_and_bookmark(url, file_name, n,
                                                bookmark_title, bookmark)
                      /\ disk' = disk \cup {file_name}
                      /\ UNCHANGED status

\* add_page without its test for '.pdf'.
add_page_any_url(url, bookmark_title, bookmark) ==
    save_page(url, bookmark_title, bookmark)

\* add_page
add_page(url, bookmark_title, bookmark) ==
    IF endswith(url, PdfExt)
    THEN UNCHANGED <<pages, bookmarks, bookmark_stack, files_to_clean_up, disk,
                     renders, sleeps, allocated, covered, status>>
    ELSE save_page(url, bookmark_title, bookmark)

\* clean_up_files: os.remove fails on the files in bad; the first failure
\* raises OSError out of the loop.
clean_up_files(bad) ==
    LET fails == {i \in 1..Len(files_to_clean_up) : files_to_clean_up[i] \in bad}
        stop == IF fails = {} THEN Len(files_to_clean_up) + 1
                ELSE CHOOSE i \in fails : \A j \in fails : i <= j
    IN  /\ disk' = disk \ {files_to_clean_up[i] : i \in 1..(stop - 1)}
        /\ status' = IF fails = {} THEN "done" ELSE "os_error"

\* write_output
write_output ==
    output' = [written |-> TRUE, pages |-> pages, bookmarks |-> bookmarks]

\* finish: 2017 writes and cleans up whatever the mode; 2018 does neither
\* under --no-exec.
finish(bad) ==
    IF rev = "2018" /\ debug
    THEN /\ status' = "done"
         /\ UNCHANGED <<output, disk>>
    ELSE /\ write_output
         /\ clean_up_files(bad)

(* ------------------------------ traversal ------------------------------ *)

\* One pending call of the traversal: "site" (scrape_site), "rootpage" (its
\* add_page), "item" (the scrape_* call for one navigation item at a level,
\* path being the item's place in the navigation) or "pop" (the
\* pop_heading that closes a group).
Task(op, node, path, lvl) == [op |-> op, node |-> node, path |-> path, lvl |-> lvl]

SiteTask == Task("site", NoNode, <<>>, 0)
RootPageTask == Task("rootpage", NoNode, <<>>, 0)
PopTask == Task("pop", NoNode, <<>>, 0)

\* A for loop that visits the sub-items last to first.
RECURSIVE ItemTasksBackwards(_, _, _, _)
ItemTasksBackwards(kids, path, lvl, i) ==
    IF i > Len(kids) THEN <<>>
    ELSE ItemTasksBackwards(kids, path, lvl, i + 1)
            \o <<Task("item", kids[i], Append(path, i), lvl)>>

\* The calls of a for loop over the sub-items of the item at path.
RECURSIVE ItemTasks(_, _, _, _)
ItemTasks(kids, path, lvl, i) ==
    IF i > Len(kids) THEN <<>>
    ELSE <<Task("item", kids[i], Append(path, i), lvl)>>
            \o ItemTasks(kids, path, lvl, i + 1)

\* What the PdfOutput calls leave alone.
Inputs == <<rev, debug, site, run, recover, first, calls, history, fn, arg, ret>>
Writer == <<pages, bookmarks, files_to_clean_up>>
World == <<disk, renders, sleeps, output, allocated, covered, undeletable>>

\* The next call, while main() is inside scrape_site.
Running == status = "running" /\ todo # <<>>

\* push_heading of a group, then its sub-items, then pop_heading.
EnterGroup(title) ==
    LET t == Head(todo)
    IN  /\ push_heading(title)
        /\ todo' = ItemTasks(t.node.kids, t.path, t.lvl + 1, 1)
                        \o <<PopTask>> \o Tail(todo)
        /\ UNCHANGED <<Inputs, Writer, World, status>>

\* add_page of a link.
SaveLink(title) ==
    /\ add_page(url_to_absolute(SiteUrl, Head(todo).node.href), title, TRUE)
    /\ todo' = Tail(todo)
    /\ UNCHANGED <<Inputs, nextHid, output, undeletable>>

\* read_page raised (requests: a network or HTTP error); nothing catches it.
ReadPageFails ==
    /\ status' = "http_error"
    /\ UNCHANGED <<Inputs, Writer, World, bookmark_stack, nextHid, todo>>

\* main, up to the call of scrape_site: argparse knows --debug / --no-exec,
\* --delay and --output only, and exits on any other option.
Main ==
    /\ status = "start"
    /\ IF recover
       THEN status' = "usage_error" /\ todo' = todo
       ELSE status' = "running" /\ todo' = <<SiteTask>>
    /\ UNCHANGED <<Inputs, Writer, World, bookmark_stack, nextHid>>

\* scrape_site, up to its add_page.
ScrapeSite ==
    /\ Running
    /\ Head(todo).op = "site"
    /\ \/ ReadPageFails
       \/ /\ push_heading(strip(SiteTitle))
          /\ todo' = <<RootPageTask>> \o ItemTasks(site, <<>>, 1, 1)
                            \o <<PopTask>> \o Tail(todo)
          /\ UNCHANGED <<Inputs, Writer, World, status>>

\* scrape_site: output.add_page(url, url, bookmark=False)
ScrapeRootPage ==
    /\ Running
    /\ Head(todo).op = "rootpage"
    /\ add_page(SiteUrl, SiteUrl, FALSE)
    /\ todo' = Tail(todo)
    /\ UNCHANGED <<Inputs, nextHid, output, undeletable>>

\* scrape_upper_tab
ScrapeUpperTab ==
    /\ Running
    /\ Head(todo).op = "item"
    /\ Head(todo).lvl = 1
    /\ \/ ReadPageFails
       \/ /\ Head(todo).node.kind = "group"
          /\ EnterGroup(strip(nav_text(Head(todo).path)))
       \/ /\ Head(todo).node.kind = "leaf"
          /\ SaveLink(title_to_bookmark_title(page_title(Head(todo).path)))

\* scrape_lower_tab (2017)
ScrapeLowerTab ==
    /\ Running
    /\ Head(todo).op = "item"
    /\ rev = "2017"
    /\ Head(todo).lvl = 2
    /\ \/ ReadPageFails
       \/ /\ Head(todo).node.kind = "group"
          /\ EnterGroup(strip(nav_text(Head(todo).path)))
       \/ /\ Head(todo).node.kind = "leaf"
          /\ SaveLink(title_to_bookmark_title(page_title(Head(todo).path)))

\* scrape_side_menu_item
ScrapeSideMenuItem ==
    /\ Running
    /\ Head(todo).op = "item"
    /\ Head(todo).lvl > TabLevels(rev)
    /\ \/ /\ Head(todo).node.kind = "heading"
          /\ todo' = Tail(todo)
          /\ UNCHANGED <<Inputs, Writer, World, bookmark_stack, nextHid, status>>
       \/ /\ Head(todo).node.kind = "group"
          /\ EnterGroup(strip(nav_text(Head(todo).path)))
       \/ /\ Head(todo).node.kind = "leaf"
          /\ SaveLink(strip(nav_text(Head(todo).path)))

\* The pop_heading that ends a group (and scrape_site).
PopHeading ==
    /\ Running
    /\ Head(todo).op = "pop"
    /\ pop_heading
    /\ todo' = Tail(todo)
    /\ UNCHANGED <<Inputs, Writer, World, nextHid, status>>

\* main: output.finish() and print('Done'), with os.remove failing on at
\* most one of the files.
Finish ==
    /\ status = "running"
    /\ todo = <<>>
    /\ \E bad \in {{}} \cup {{files_to_clean_up[i]} : i \in 1..Len(files_to_clean_up)} :
          /\ finish(bad)
          /\ undeletable' = bad
    /\ UNCHANGED <<Inputs, Writer, bookmark_stack, nextHid, todo, renders, sleeps,
                   allocated, covered>>

\* main: except KeyboardInterrupt: print('Cancelled')
Interrupt ==
    /\ status \in {"start", "running"}
    /\ status' = "cancelled"
    /\ UNCHANGED <<Inputs, Writer, World, bookmark_stack, nextHid, todo>>

\* The program is started again in the same directory after a complete
\* run, now with a recovery option on its command line.
Rerun ==
    /\ status = "done"
    /\ run = 1
    /\ ~debug
    /\ run' = 2
    /\ recover' = TRUE
    /\ status' = "start"
    /\ first' = output
    /\ output' = NoOutput
    /\ todo' = <<>>
    /\ pages' = <<>>
    /\ bookmarks' = <<>>
    /\ bookmark_stack' = <<>>
    /\ files_to_clean_up' = <<>>
    /\ renders' = 0
    /\ sleeps' = 0
    /\ allocated' = <<>>
    /\ nextHid' = 1
    /\ covered' = {}
    /\ undeletable' = {}
    /\ UNCHANGED <<rev, debug, site, disk, calls, history, fn, arg, ret>>

\* The state when the program is started: PdfOutput.__init__.
Init ==
    /\ rev \in Revisions
    /\ debug \in BOOLEAN
    /\ site \in Sites(rev)
    /\ run = 1
    /\ recover = FALSE
    /\ status = "start"
    /\ todo = <<>>
    /\ pages = <<>>
    /\ bookmarks = <<>>
    /\ bookmark_stack = <<>>
    /\ files_to_clean_up = <<>>
    /\ disk = {}
    /\ renders = 0
    /\ sleeps = 0
    /\ output = NoOutput
    /\ first = NoOutput
    /\ allocated = <<>>
    /\ nextHid = 1
    /\ covered = {}
    /\ undeletable = {}
    /\ calls = 0
    /\ history = <<>>
    /\ fn = "none"
    /\ arg = <<>>
    /\ ret = <<>>

Next ==
    \/ Main
    \/ ScrapeSite
    \/ ScrapeRootPage
    \/ ScrapeUpperTab
    \/ ScrapeLowerTab
    \/ ScrapeSideMenuItem
    \/ PopHeading
    \/ Finish
    \/ Interrupt
    \/ Rerun

Spec == Init /\ [][Next]_vars

(* --------------------- PdfOutput under any caller ---------------------- *)

\* The title passed by the n-th call.
ApiTitle(n) == <<"T">> \o str(n)

\* The URLs passed to add_page.
ApiUrls == {UrlDot, UrlPdf}

\* What a call on PdfOutput leaves alone, the call counter and the call
\* history apart ("no_page" in the history is an add_page that appended
\* nothing).
ApiInputs == <<rev, debug, site, run, recover, first, todo, fn, arg, ret>>

\* A call can be made: the process is alive and the call budget is not spent.
ApiReady == status = "running" /\ calls < MaxCalls

ApiPushHeading ==
    /\ ApiReady
    /\ push_heading(ApiTitle(calls + 1))
    /\ calls' = calls + 1
    /\ history' = Append(history, "push_heading")
    /\ UNCHANGED <<ApiInputs, Writer, World, status>>

\* add_heading exists in the 2018 revision only.
ApiAddHeading ==
    /\ ApiReady
    /\ rev = "2018"
    /\ add_heading(ApiTitle(calls + 1))
    /\ calls' = calls + 1
    /\ history' = Append(history, "add_heading")
    /\ UNCHANGED <<ApiInputs, Writer, World, status>>

ApiPopHeading ==
    /\ ApiReady
    /\ pop_heading
    /\ calls' = calls + 1
    /\ history' = Append(history, "pop_heading")
    /\ UNCHANGED <<ApiInputs, Writer, World, nextHid, status>>

ApiAddPage ==
    /\ ApiReady
    /\ \E url \in ApiUrls, bookmark \in BOOLEAN :
          add_page(url, ApiTitle(calls + 1), bookmark)
    /\ calls' = calls + 1
    /\ history' = Append(history, IF pages' # pages THEN "add_page" ELSE "no_page")
    /\ UNCHANGED <<ApiInputs, nextHid, output, undeletable>>

\* A PdfOutput just constructed, in a live process.
InitApi ==
    /\ rev \in Revisions
    /\ debug \in BOOLEAN
    /\ site = <<>>
    /\ run = 1
    /\ recover = FALSE
    /\ status = "running"
    /\ todo = <<>>
    /\ pages = <<>>
    /\ bookmarks = <<>>
    /\ bookmark_stack = <<>>
    /\ files_to_clean_up = <<>>
    /\ disk = {}
    /\ renders = 0
    /\ sleeps = 0
    /\ output = NoOutput
    /\ first = NoOutput
    /\ allocated = <<>>
    /\ nextHid = 1
    /\ covered = {}
    /\ undeletable = {}
    /\ calls = 0
    /\ history = <<>>
    /\ fn = "none"
    /\ arg = <<>>
    /\ ret = <<>>

NextApi ==
    \/ ApiPushHeading
    \/ ApiAddHeading
    \/ ApiPopHeading
    \/ ApiAddPage

SpecApi == InitApi /\ [][NextApi]_vars

(* ------------------------ the text functions --------------------------- *)

\* The characters of the page titles: a letter, a blank and the separator.
TitleChars == {"a", " ", "|"}

\* The strings of at most n characters of a set.
StringsUpTo(chars, n) == UNION {[1..k -> chars] : k \in 0..n}

\* The page titles title_to_bookmark_title is called with.
Titles == StringsUpTo(TitleChars, MaxTitleLen)

\* 'http://web.archive.org/w': a Wayback Machine URL up to its target.
WaybackPrefix == Http \o <<":", "/", "/">> \o WaybackHost \o <<"/", "w">>

\* The parts the URLs are made of.
UrlParts == {SiteUrl, WaybackPrefix, <<"/">> \o SiteUrl, WaybackHost, <<"/", "w">>}

\* The parts of a URL put together.
RECURSIVE Flatten(_)
Flatten(parts) ==
    IF Len(parts) = 0 THEN <<>> ELSE Head(parts) \o Flatten(Tail(parts))

\* The URLs remove_wayback_header is called with: 'http://a/',
\* 'http://web.archive.org/w/http://a/', 'web.archive.org/w/http://a/', ...
Urls ==
    {Flatten(parts) : parts \in UNION {[1..k -> UrlParts] : k \in 1..MaxUrlParts}}

\* The variables of the program proper, which the text functions leave alone.
Program ==
    <<rev, debug, site, run, recover, status, todo, pages, bookmarks,
      bookmark_stack, files_to_clean_up, disk, renders, sleeps, output, first,
      allocated, nextHid, covered, undeletable, calls, history>>

\* title = page.title.string; title_to_bookmark_title(title)
TitleToBookmarkTitle ==
    /\ fn = "none"
    /\ arg \in Titles
    /\ fn' = "title_to_bookmark_title"
    /\ ret' = title_to_bookmark_title(arg)
    /\ UNCHANGED <<Program, arg>>

\* save_url_to_pdf (2018): url = remove_wayback_header(url)
RemoveWaybackHeader ==
    /\ fn = "none"
    /\ rev = "2018"
    /\ arg \in Urls
    /\ fn' = "remove_wayback_header"
    /\ ret' = remove_wayback_header(arg)
    /\ UNCHANGED <<Program, arg>>

\* A string about to be handed to one of the text functions.
InitText ==
    /\ rev \in Revisions
    /\ debug = FALSE
    /\ site = <<>>
    /\ run = 1
    /\ recover = FALSE
    /\ status = "running"
    /\ todo = <<>>
    /\ pages = <<>>
    /\ bookmarks = <<>>
    /\ bookmark_stack = <<>>
    /\ files_to_clean_up = <<>>
    /\ disk = {}
    /\ renders = 0
    /\ sleeps = 0
    /\ output = NoOutput
    /\ first = NoOutput
    /\ allocated = <<>>
    /\ nextHid = 1
    /\ covered = {}
    /\ undeletable = {}
    /\ calls = 0
    /\ history = <<>>
    /\ fn = "none"
    /\ arg \in Titles \cup Urls
    /\ ret = <<>>

NextText ==
    \/ TitleToBookmarkTitle
    \/ RemoveWaybackHeader

SpecText == InitText /\ [][NextText]_vars

(* ------------------------------- claims --------------------------------- *)

\* The URLs of the links of an item list that add_page does not skip, in
\* depth-first document order.
RECURSIVE LeafSequence(_)
LeafSequence(items) ==
    IF items = <<>> THEN <<>>
    ELSE LET item == Head(items)
             own == IF item.kind = "leaf"
                    THEN (IF endswith(item.href, PdfExt) THEN <<>> ELSE <<item.href>>)
                    ELSE IF item.kind = "group" THEN LeafSequence(item.kids)
                    ELSE <<>>
         IN  own \o LeafSequence(Tail(items))

\* The documents a complete run has to append: the main page, then the links.
ExpectedDocs == <<SiteUrl>> \o LeafSequence(site)

\* The URL of each appended PDF file, in order (a file of several pages
\* counts once).
RECURSIVE DocUrls(_)
DocUrls(pp) ==
    IF pp = <<>> THEN <<>>
    ELSE LET rest == DocUrls(SubSeq(pp, 1, Len(pp) - 1))
             last == pp[Len(pp)]
         IN  IF Len(pp) > 1 /\ pp[Len(pp) - 1].file = last.file
             THEN rest
             ELSE Append(rest, last.url)

IsPrefix(s, t) == Len(s) <= Len(t) /\ SubSeq(t, 1, Len(s)) = s

\* The titles of the groups of an item list (the list of the items below
\* path) whose subtree has no link that add_page saves.
RECURSIVE EmptyGroupTitles(_, _, _)
EmptyGroupTitles(items, path, i) ==
    IF i > Len(items) THEN {}
    ELSE LET item == items[i]
             here == Append(path, i)
             own == IF item.kind = "group"
                    THEN (IF LeafSequence(item.kids) = <<>>
                          THEN {strip(nav_text(here))} ELSE {})
                            \cup EmptyGroupTitles(item.kids, here, 1)
                    ELSE {}
         IN  own \cup EmptyGroupTitles(items, path, i + 1)

\* C1: the documents appended to the output are, in every state, the first
\* documents of the depth-first document-order sequence of the saved links
\* (main page first), and a run that is not a dry run and writes its output
\* has appended the whole sequence: nothing out of order, twice or left out.
C1_DepthFirstOrder ==
    /\ IsPrefix(DocUrls(pages), ExpectedDocs)
    /\ (output.written /\ ~debug) => DocUrls(output.pages) = ExpectedDocs

\* C1 witness: a finished run over a site with a non-empty group, with at
\* least three documents appended.
C1_Witness ==
    /\ status = "done"
    /\ ~debug
    /\ Len(DocUrls(output.pages)) >= 3
    /\ \E i \in 1..Len(site) : site[i].kind = "group" /\ site[i].kids # <<>>
    /\ site[Len(site)].kind = "leaf"

\* C2: a group whose subtree has no saved link has no bookmark, neither in
\* the outline being built nor in the one written; and every heading
\* bookmark belongs to a heading that was on the stack when a page was
\* appended.
C2_EmptyGroupNoBookmark ==
    /\ \A outline \in {bookmarks, output.bookmarks} :
          \A i \in 1..Len(outline) :
             /\ outline[i].title \notin EmptyGroupTitles(site, <<>>, 1)
             /\ outline[i].owner # None => outline[i].owner \in covered

\* C2 witness: a finished run over a site with an empty group followed by a
\* saved link, whose bookmark is in the written outline.
C2_Witness ==
    /\ status = "done"
    /\ output.written
    /\ ~debug
    /\ Len(site) >= 2
    /\ site[1].kind = "group"
    /\ LeafSequence(site[1].kids) = <<>>
    /\ site[2].kind = "leaf"
    /\ ~endswith(site[2].href, PdfExt)
    /\ Len(output.bookmarks) >= 2

\* The outline entries made for the Bookmark object h.
HeadingBookmarks(h) == {i \in 1..Len(bookmarks) : bookmarks[i].owner = h}

\* No Bookmark object has two outline entries.
C3_AtMostOne ==
    \A h \in 1..(nextHid - 1) : Cardinality(HeadingBookmarks(h)) <= 1

\* An entry that stays on the stack and has its reference set keeps the
\* reference, and the outline entry it refers to keeps its page and parent.
C3_Stable ==
    \A i \in 1..Len(bookmark_stack) :
        (/\ i <= Len(bookmark_stack')
         /\ bookmark_stack'[i].hid = bookmark_stack[i].hid
         /\ ~is_pending(bookmark_stack[i]))
        => /\ bookmark_stack'[i].pdf_ref = bookmark_stack[i].pdf_ref
           /\ bookmark_stack[i].pdf_ref <= Len(bookmarks')
           /\ bookmarks'[bookmark_stack[i].pdf_ref] = bookmarks[bookmark_stack[i].pdf_ref]

\* C3: under any sequence of push_heading, add_heading, pop_heading and
\* add_page calls, every heading entry gets at most one bookmark, and once
\* its reference is set neither the reference nor the page it points at
\* changes while the entry is on the stack.
C3_RealizedOnce == [][C3_AtMostOne' /\ C3_Stable]_vars

\* C3 witness: two pages were appended under the bottom entry: the first
\* realized it at page 0, the second realized the entry above it later.
C3_Witness ==
    /\ Len(bookmark_stack) >= 2
    /\ ~is_pending(bookmark_stack[1])
    /\ ~is_pending(bookmark_stack[2])
    /\ bookmarks[bookmark_stack[1].pdf_ref].page = 0
    /\ bookmarks[bookmark_stack[2].pdf_ref].page > 0
    /\ Len(files_to_clean_up) >= 2

\* C4: no two distinct URLs were given the same file name by
\* make_unique_filename_ext in one run, whatever the mode.
C4_DistinctUrlsDistinctNames ==
    \A i, j \in 1..Len(allocated) :
        allocated[i].url # allocated[j].url => allocated[i].file # allocated[j].file

\* The files add_page appended that are still in the working directory.
Orphans == {files_to_clean_up[i] : i \in 1..Len(files_to_clean_up)} \cap disk

\* C5: a run that was interrupted after it had appended a page has written
\* the output file and removed every file it tracked.
C5_InterruptStillFinishes ==
    (status = "cancelled" /\ files_to_clean_up # <<>>)
        => (output.written /\ Orphans = {})

\* The renderer calls of this run that failed.
FailedRenders == renders - Len(files_to_clean_up)

\* C6: a renderer failure only skips its link: after a failed render the
\* run is still going, or has ended by finish() or by the user.
C6_RenderFailureSkipsOneLeaf ==
    FailedRenders > 0 => status \in {"running", "done", "cancelled"}

\* C7: a re-run with the recovery option after a complete run ends having
\* called the renderer zero times and having written the same pages and
\* bookmarks as the first run.
C7_RecoveryIdempotent ==
    (run = 2 /\ recover /\ status \notin {"start", "running", "cancelled"})
        => (renders = 0 /\ output.written /\ output = first)

\* C8: in a dry run the renderer is never called, the output file is never
\* written and no file is deleted or created.
C8_DryRunTouchesNothing ==
    debug => (renders = 0 /\ ~output.written /\ disk = {})

\* The next call is add_page for a link whose URL ends in '.pdf'.
PdfLinkNext ==
    /\ Running
    /\ Head(todo).op = "item"
    /\ Head(todo).node.kind = "leaf"
    /\ endswith(url_to_absolute(SiteUrl, Head(todo).node.href), PdfExt)

\* C9: add_page on a URL ending in '.pdf' leaves the document, the outline,
\* the heading stack, the tracked files, the allocated names and the
\* working directory as they are, and neither sleeps nor renders; the
\* traversal goes on with the next sibling (or the process ends on an
\* interrupt or an HTTP error of the tab's page).
C9_PdfLinkSkipped ==
    [][PdfLinkNext =>
         /\ UNCHANGED <<pages, bookmarks, bookmark_stack, files_to_clean_up,
                        allocated, disk, renders, sleeps, covered>>
         /\ \/ todo' = Tail(todo) /\ status' = status
            \/ todo' = todo /\ status' \in {"cancelled", "http_error"}]_vars

\* C9 witness: a finished run whose first link ended in '.pdf' and whose
\* second link was appended right after the main page.
C9_Witness ==
    /\ status = "done"
    /\ ~debug
    /\ Len(site) >= 2
    /\ site[1] = LeafNode(UrlPdf)
    /\ site[2] = LeafNode(UrlDot)
    /\ DocUrls(output.pages) = <<SiteUrl, UrlDot>>
    /\ Len(output.bookmarks) = 2

\* C10: once finish() has written the output, it has completed, and every
\* tracked file other than those os.remove failed on is gone.
C10_CleanUpBestEffort ==
    output.written
        => /\ status = "done"
           /\ Orphans \subseteq undeletable

\* The stack and the outline after a successful add_page(bookmark=True)
\* whose PDF starts at page_index.
AfterPage(stack, bms, title, page_index) ==
    LET made == create_pending_bookmarks(stack, bms, page_index)
    IN  [stack |-> made.stack,
         bms |-> bookmark_page(made.stack, made.bms, title, page_index)]

\* From the current stack and outline: push_heading of a group G (object
\* g) and add_page of its first link, whose PDF starts at page_index.
ContainerAlone(stack, bms, page_index, g) ==
    AfterPage(Append(stack, Bookmark(<<"G">>, TRUE, g)), bms, <<"x">>, page_index)

\* From the current stack and outline: add_heading of a decorative group
\* (object d), add_page of one link under it if it is not empty,
\* pop_heading, and then the group G as in ContainerAlone.
ContainerAfterDecorative(stack, bms, page_index, d, g, empty) ==
    LET opened == Append(stack, Bookmark(<<"D">>, FALSE, d))
        inside == IF empty THEN [stack |-> opened, bms |-> bms]
                  ELSE AfterPage(opened, bms, <<"y">>, page_index)
        start == IF empty THEN page_index ELSE page_index + 1
    IN  AfterPage(Append(popped(inside.stack), Bookmark(<<"G">>, TRUE, g)),
                  inside.bms, <<"x">>, start)

\* The Bookmark object an outline entry was made for (None for no entry
\* and for the entry of a page).
OwnerOf(bms, ref) == IF ref = None THEN None ELSE bms[ref].owner

\* How the group G (object g) came out: it is on top of the stack and
\* realized, its bookmark is at the first page of its first link, under the
\* bookmark of which heading it is, and under which the link's bookmark is.
ContainerOutcome(after, g, page_index) ==
    LET top == after.stack[Len(after.stack)]
        link == after.bms[Len(after.bms)]
    IN  [on_top |-> top.hid = g /\ ~is_pending(top),
         at_first_link |-> after.bms[top.pdf_ref].page = page_index
                            /\ link.page = page_index,
         parent |-> OwnerOf(after.bms, after.bms[top.pdf_ref].parent),
         link_parent |-> OwnerOf(after.bms, link.parent)]

\* From any state of a 2018 PdfOutput, a real group visited after a
\* decorative one comes out as it does without the decorative one.
C11_SameAsAlone ==
    rev = "2018" =>
        \A empty \in BOOLEAN :
            LET n == Len(pages)
                with == ContainerAfterDecorative(bookmark_stack, bookmarks, n,
                                                 nextHid, nextHid + 1, empty)
                alone == ContainerAlone(bookmark_stack, bookmarks, n, nextHid + 1)
                out == ContainerOutcome(with, nextHid + 1,
                                        IF empty THEN n ELSE n + 1)
            IN  /\ out = ContainerOutcome(alone, nextHid + 1, n)
                /\ out.on_top
                /\ out.at_first_link
                /\ out.link_parent = nextHid + 1

\* The last calls were: add_heading, at most one add_page under it,
\* pop_heading, push_heading, and an add_page that appended.
DecorativeThenContainer ==
    LET n == Len(history)
    IN  /\ n >= 4
        /\ history[n] = "add_page"
        /\ history[n - 1] = "push_heading"
        /\ history[n - 2] = "pop_heading"
        /\ \/ history[n - 3] = "add_heading"
           \/ /\ n >= 5
              /\ history[n - 3] = "add_page"
              /\ history[n - 4] = "add_heading"

\* The reference of the nearest entry that indents below stack index i.
RECURSIVE NestingBelow(_, _)
NestingBelow(stack, i) ==
    IF i <= 1 THEN None
    ELSE IF stack[i - 1].indent THEN stack[i - 1].pdf_ref
    ELSE NestingBelow(stack, i - 1)

\* The index of the first page of the PDF appended last.
LastDocStart ==
    LET same == {i \in 1..Len(pages) : pages[i].file = pages[Len(pages)].file}
    IN  (CHOOSE i \in same : \A j \in same : i <= j) - 1

Registered(i) ==
    \E k \in 1..Len(files_to_clean_up) : files_to_clean_up[k] = allocated[i].file

\* C12 as claimed: two consecutive allocations for one URL return the same
\* file name.
C12_SameUrlSameName ==
    \A i \in 1..(Len(allocated) - 1) :
        allocated[i].url = allocated[i + 1].url
            => allocated[i].file = allocated[i + 1].file

\* C12 as amended: two consecutive allocations for one URL return the same
\* file name exactly when the first name was not registered in between (a
\* dry run registers nothing); after an add_page that appended, the next
\* allocation for the same URL returns a different name.
C12_SameNameUnlessRegistered ==
    \A i \in 1..(Len(allocated) - 1) :
        allocated[i].url = allocated[i + 1].url
            => (allocated[i].file = allocated[i + 1].file <=> ~Registered(i))

\* C12 witness: a dry run made two consecutive allocations for one URL.
C12_Witness ==
    /\ debug
    /\ \E i \in 1..(Len(allocated) - 1) :
          /\ allocated[i].url = allocated[i + 1].url
          /\ allocated[i].file = allocated[i + 1].file

\* An append: the step adds pages to the document.
AppendStep == Len(pages') > Len(pages)

\* What an append does to the entry at stack index i: a pending entry has
\* had no page appended while it was on the stack, and is realized at the
\* length the document had before the append; a realized entry has had one,
\* and keeps its page.
C13_EntryAtAppend(i) ==
    LET before == bookmark_stack[i]
        after == bookmark_stack'[i]
    IN  /\ after.hid = before.hid
        /\ ~is_pending(after)
        /\ IF is_pending(before)
           THEN /\ before.hid \notin covered
                /\ bookmarks'[after.pdf_ref].page = Len(pages)
                /\ bookmarks'[after.pdf_ref].owner = before.hid
           ELSE /\ before.hid \in covered
                /\ after.pdf_ref = before.pdf_ref
                /\ bookmarks'[after.pdf_ref].page = bookmarks[before.pdf_ref].page
                /\ bookmarks'[after.pdf_ref].page < Len(pages)

\* C13: the bookmark of every heading entry points at the first page
\* appended while the entry was on the stack: at every append all the
\* entries still pending (those under which nothing was appended yet) are
\* realized at the document length just before the append, and the entries
\* realized earlier keep their earlier page.
C13_RealizedAtFirstPage ==
    [][AppendStep =>
         /\ Len(bookmark_stack') = Len(bookmark_stack)
         /\ \A i \in 1..Len(bookmark_stack) : C13_EntryAtAppend(i)]_vars

\* C13 witness: two entries pushed after the first page were realized
\* together by a later append, at the same page, not page 0.
C13_Witness ==
    /\ Len(bookmark_stack) >= 2
    /\ ~is_pending(bookmark_stack[1])
    /\ ~is_pending(bookmark_stack[2])
    /\ bookmarks[bookmark_stack[1].pdf_ref].page > 0
    /\ bookmarks[bookmark_stack[2].pdf_ref].page
            = bookmarks[bookmark_stack[1].pdf_ref].page

\* C14: in every state the realized entries of the heading stack are a
\* prefix of it from the bottom, the bookmark of a realized entry is the
\* entry's own and is parented to the nearest entry below it that nests
\* (to none if there is none), and a pending entry has no bookmark.
C14_RealizedPrefixAncestorChain ==
    \A i \in 1..Len(bookmark_stack) :
        LET entry == bookmark_stack[i]
        IN  IF is_pending(entry)
            THEN HeadingBookmarks(entry.hid) = {}
            ELSE /\ \A j \in 1..(i - 1) : ~is_pending(bookmark_stack[j])
                 /\ entry.pdf_ref \in 1..Len(bookmarks)
                 /\ HeadingBookmarks(entry.hid) = {entry.pdf_ref}
                 /\ bookmarks[entry.pdf_ref].parent = NestingBelow(bookmark_stack, i)

\* C14 witness: a nesting entry, a decorative entry and a second nesting
\* entry are realized, the third parented to the first, and a pending entry
\* lies on top of them.
C14_Witness ==
    /\ Len(bookmark_stack) = 4
    /\ bookmark_stack[1].indent
    /\ ~bookmark_stack[2].indent
    /\ bookmark_stack[3].indent
    /\ ~is_pending(bookmark_stack[3])
    /\ bookmarks[bookmark_stack[3].pdf_ref].parent = bookmark_stack[1].pdf_ref
    /\ is_pending(bookmark_stack[4])

\* The last call was an add_page that appended a document and bookmarked
\* it: the newest bookmark is the leaf's own.
LeafJustBookmarked ==
    /\ history # <<>>
    /\ history[Len(history)] = "add_page"
    /\ bookmarks # <<>>
    /\ bookmarks[Len(bookmarks)].owner = None
    /\ bookmarks[Len(bookmarks)].page = LastDocStart

\* C15: the bookmark of a leaf is parented to the nearest entry of the
\* heading stack that nests (to none if no entry nests), also when a
\* decorative entry lies on top of the stack: the parent a heading pushed
\* at that point would get from create_pending_bookmarks.
C15_LeafUnderNearestNesting ==
    LeafJustBookmarked =>
        bookmarks[Len(bookmarks)].parent
            = NestingBelow(bookmark_stack, Len(bookmark_stack) + 1)

\* A step that is a call of pop_heading.
PopStep ==
    /\ Len(history') > Len(history)
    /\ history'[Len(history')] = "pop_heading"

\* What a call of pop_heading does to the stack: it removes the top entry
\* and below it a run of entries of which each satisfies cascades(entry),
\* and it removes nothing else.
C16_PopRemoves(cascades(_)) ==
    LET n == Len(bookmark_stack)
        m == Len(bookmark_stack')
    IN  /\ m < n
        /\ bookmark_stack' = SubSeq(bookmark_stack, 1, m)
        /\ \A i \in (m + 1)..(n - 1) : cascades(bookmark_stack[i])

\* An entry that does not nest and is still pending.
DecorativePending(entry) == ~entry.indent /\ is_pending(entry)

\* An entry that does not nest.
Decorative(entry) == ~entry.indent

RECURSIVE IdealStack(_, _, _)
IdealStack(h, stack, next) ==
    IF h = <<>> THEN stack
    ELSE IF Head(h) \in {"push_heading", "add_heading"}
         THEN IdealStack(Tail(h), Append(stack, next), next + 1)
    ELSE IF Head(h) = "pop_heading" /\ stack # <<>>
         THEN IdealStack(Tail(h), SubSeq(stack, 1, Len(stack) - 1), next)
    ELSE IdealStack(Tail(h), stack, next)

\* The identities of the entries of the heading stack, bottom-up.
StackHids == [i \in 1..Len(bookmark_stack) |-> bookmark_stack[i].hid]

\* Every group visited so far contributes nesting.
OnlyNestingGroups ==
    \A i \in 1..Len(history) : history[i] # "add_heading"

TraversalBalanced ==
    status = "running" =>
        /\ Len(bookmark_stack)
              = Cardinality({i \in 1..Len(todo) : todo[i].op = "pop"})
        /\ \A i \in 1..Len(bookmark_stack) : bookmark_stack[i].indent

\* s contains sub.
contains(s, sub) == find(s, sub) >= 0

\* s with ins put in before the character at (0-based) index i.
inserted(s, i, ins) == SubSeq(s, 1, i) \o ins \o SubSeq(s, i + 1, Len(s))

\* '/http', the start of the target embedded in a Wayback Machine URL.
SlashHttp == <<"/">> \o Http

\* The index of the first '/http' after 'web.archive.org' in url, -1 if
\* there is none.
TargetIndex(url) ==
    LET after == find(url, WaybackHost) + Len(WaybackHost)
        spot == find(SubSeq(url, after + 1, Len(url)), SlashHttp)
    IN  IF spot < 0 THEN -1 ELSE after + spot

\* C18: remove_wayback_header returns a URL that does not contain
\* 'web.archive.org' unchanged, and a URL that contains 'web.archive.org'
\* followed by a '/http' target with 'if_' put in immediately before that
\* '/http'.
C18_OnlyWaybackUrlsChange ==
    fn = "remove_wayback_header" =>
        /\ ~contains(arg, WaybackHost) => ret = arg
        /\ (contains(arg, WaybackHost) /\ TargetIndex(arg) >= 0) =>
                ret = inserted(arg, TargetIndex(arg), <<"i", "f", "_">>)

\* C19: title_to_bookmark_title returns a title without '|' whole, and of
\* a title with '|' at a position greater than 0 the text before the '|',
\* stripped.
C19_FullTitleWithoutSeparator ==
    fn = "title_to_bookmark_title" =>
        LET vertical_bar == find(arg, <<"|">>)
        IN  /\ vertical_bar < 0 => ret = arg
            /\ vertical_bar > 0 => ret = strip(SubSeq(arg, 1, vertical_bar))

====
